---- MODULE Spec2Model ----
(***************************************************************************)
(* rhuffman: frequency table, Huffman tree builder, codeword derivation,   *)
(* bit-level encoder and decoder, and the rhuff-compress container.        *)
(*                                                                         *)
(* Symbols are modelled by the integers 1, 2, 3, ... in their usual order  *)
(* ("A" < "B" < "C" of the repository's tests are 1 < 2 < 3).  A BitVec is *)
(* a sequence of BOOLEAN, a byte vector a sequence of 0..255.              *)
(***************************************************************************)
EXTENDS Integers, Sequences, FiniteSets, TLC

\* ------------------------------------------------------------------ bounds
NumSymbols == 3      \* alphabet of the codec specifications
MaxLen == 4          \* longest symbol stream drawn freely
BuildSymbols == 4    \* alphabet of the builder specification
MaxCount == 2        \* largest count a table entry reaches through free adds
MaxBuilds == 2       \* how many times a table of the same contents is built
TieSymbols == 8      \* alphabet of the tie-break specification
TieCount == 2        \* largest count in the tie-break specification
MaxStream == 3       \* longest stream the encoder specification draws freely
MaxBits == 3         \* longest BitVec the decoder specification draws freely
MaxDecoded == 3      \* symbols after which the decoder specification stops looking

\* ------------------------------------------------------------------ values
None == [kind |-> "None"]

Some(v) == [kind |-> "Some", value |-> v]

Ok(v) == [kind |-> "Ok", value |-> v]

Err(v) == [kind |-> "Err", value |-> v]

EmptyMap == [x \in {} |-> 0]

\* HashMap::insert: the entry for key k becomes v, whether or not k was a key
MapInsert(m, k, v) == [x \in (DOMAIN m) \cup {k} |-> IF x = k THEN v ELSE m[x]]

\* ------------------------------------------------------------------ nodes
\* HuffmanNode::Leaf(HuffmanLeaf { symbol })
Leaf(symbol) == [kind |-> "Leaf", symbol |-> symbol]

\* HuffmanNode::Branch(HuffmanBranch { links: (first, second) })
Branch(first, second) == [kind |-> "Branch", links |-> <<first, second>>]

IsLeaf(n) == n.kind = "Leaf"

IsBranch(n) == n.kind = "Branch"

\* Weighted(HuffmanNode, u64)
Weighted(node, weight) == [node |-> node, weight |-> weight]

get_weight(w) == w.weight

new_leaf(symbol, weight) == Weighted(Leaf(symbol), weight)

\* mutant of new_branch: the node removed first becomes the first child
new_branch_swapped(greater, lower) ==
    Weighted(Branch(lower.node, greater.node), get_weight(greater) + get_weight(lower))

\* mutant of new_branch: the Branch keeps the weight of its heavier child
new_branch_greater_weight(greater, lower) ==
    Weighted(Branch(greater.node, lower.node), get_weight(greater))

\* the children lose their weights (From<Weighted> for HuffmanNode)
new_branch(greater, lower) ==
    Weighted(Branch(greater.node, lower.node), get_weight(greater) + get_weight(lower))

\* Ord for the integers (u64 weights, symbols)
IntCmp(a, b) == IF a < b THEN "Less" ELSE IF a > b THEN "Greater" ELSE "Equal"

\* mutant of NodeCmp: two Branches are not told apart by their first children
NodeCmpNoDescent(me, other) ==
    CASE IsLeaf(me) /\ IsBranch(other) -> "Greater"
      [] IsBranch(me) /\ IsLeaf(other) -> "Less"
      [] IsLeaf(me) /\ IsLeaf(other) -> IntCmp(me.symbol, other.symbol)
      [] IsBranch(me) /\ IsBranch(other) -> "Equal"

\* impl Ord for HuffmanNode: no weight is compared here
RECURSIVE NodeCmp(_, _)
NodeCmp(me, other) ==
    CASE IsLeaf(me) /\ IsBranch(other) -> "Greater"
      [] IsBranch(me) /\ IsLeaf(other) -> "Less"
      [] IsLeaf(me) /\ IsLeaf(other) -> IntCmp(me.symbol, other.symbol)
      [] IsBranch(me) /\ IsBranch(other) -> NodeCmp(me.links[1], other.links[1])

\* mutant of WeightedCmp: nothing but the weights is compared
WeightOnlyCmp(me, other) == IntCmp(get_weight(me), get_weight(other))

\* mutant of WeightedCmp: on equal weight a Leaf sorts before a Branch
WeightedCmpLeafFirst(me, other) ==
    LET ordering == IntCmp(get_weight(me), get_weight(other))
    IN  IF ordering = "Equal"
        THEN CASE IsLeaf(me.node) /\ IsBranch(other.node) -> "Less"
               [] IsBranch(me.node) /\ IsLeaf(other.node) -> "Greater"
               [] IsLeaf(me.node) /\ IsLeaf(other.node) ->
                      IntCmp(me.node.symbol, other.node.symbol)
               [] IsBranch(me.node) /\ IsBranch(other.node) ->
                      NodeCmp(me.node.links[1], other.node.links[1])
        ELSE ordering

\* impl Ord for Weighted
WeightedCmp(me, other) ==
    LET ordering == IntCmp(get_weight(me), get_weight(other))
    IN  IF ordering = "Equal"
        THEN CASE IsLeaf(me.node) /\ IsBranch(other.node) -> "Greater"
               [] IsBranch(me.node) /\ IsLeaf(other.node) -> "Less"
               [] IsLeaf(me.node) /\ IsLeaf(other.node) ->
                      IntCmp(me.node.symbol, other.node.symbol)
               [] IsBranch(me.node) /\ IsBranch(other.node) ->
                      NodeCmp(me.node.links[1], other.node.links[1])
        ELSE ordering

\* mutant of ReverseCmp: the heap is fed without Reverse
ForwardCmp(me, other) == WeightedCmp(me, other)

\* Reverse<Weighted>: the comparison with its sides swapped
ReverseCmp(me, other) == WeightedCmp(other, me)

\* BinaryHeap::pop on a heap of Reverse<Weighted>: an element no other element
\* of the heap is greater than under Reverse.  When the order leaves a tie, the
\* heap may hand out any of the tied elements.
HeapPop(h) == {x \in h : \A y \in h : ReverseCmp(y, x) # "Greater"}

\* ------------------------------------------------------------------ table
\* mutant of add_occurences_to_symbol: the count of a known symbol is replaced
add_occurences_overwrite(t, symbol, occurences) ==
    MapInsert(t, symbol, occurences)

\* HuffmanGenerator::add_occurences_to_symbol on the map `symbols`
add_occurences_to_symbol(t, symbol, occurences) ==
    IF symbol \in DOMAIN t
    THEN [t EXCEPT ![symbol] = @ + occurences]
    ELSE MapInsert(t, symbol, occurences)

\* mutant of TableIsEmpty: the early return is never taken
TableIsNeverEmpty(t) == FALSE

\* mutant of TableIsEmpty: a table of a single symbol returns early as well
TableHasOneOrFewer(t) == Cardinality(DOMAIN t) <= 1

\* self.symbols.len() == 0
TableIsEmpty(t) == Cardinality(DOMAIN t) = 0

\* ------------------------------------------------------------------ encoder
\* mutant of visit_tree: both children extend the prefix with the same bit
RECURSIVE visit_tree_same_bit(_, _, _)
visit_tree_same_bit(t, current_prefix, map) ==
    IF IsLeaf(t)
    THEN MapInsert(map, t.symbol, current_prefix)
    ELSE LET left_prefix == Append(current_prefix, FALSE)
         IN  visit_tree_same_bit(t.links[2], left_prefix,
                                 visit_tree_same_bit(t.links[1], left_prefix, map))

\* mutant of visit_tree: the first child gets bit 1 and the second bit 0
RECURSIVE visit_tree_swapped_bits(_, _, _)
visit_tree_swapped_bits(t, current_prefix, map) ==
    IF IsLeaf(t)
    THEN MapInsert(map, t.symbol, current_prefix)
    ELSE LET left_prefix == Append(current_prefix, TRUE)
             right_prefix == Append(current_prefix, FALSE)
         IN  visit_tree_swapped_bits(t.links[2], right_prefix,
                                     visit_tree_swapped_bits(t.links[1], left_prefix, map))

\* HuffmanEncoder::visit_tree: `symbols` with one codeword inserted per leaf met
RECURSIVE visit_tree(_, _, _)
visit_tree(t, current_prefix, map) ==
    IF IsLeaf(t)
    THEN MapInsert(map, t.symbol, current_prefix)
    ELSE LET left_prefix == Append(current_prefix, FALSE)
             right_prefix == Append(current_prefix, TRUE)
         IN  visit_tree(t.links[2], right_prefix,
                        visit_tree(t.links[1], left_prefix, map))

\* HuffmanEncoder::from_tree
from_tree(t) == visit_tree(t, <<>>, EmptyMap)

\* self.symbols.get(&symbol)
get(map, symbol) == IF symbol \in DOMAIN map THEN Some(map[symbol]) ELSE None

\* ------------------------------------------------------------------ bytes
Bit(b) == IF b THEN 1 ELSE 0

RECURSIVE Pow2(_)
Pow2(n) == IF n = 0 THEN 1 ELSE 2 * Pow2(n - 1)

\* bit i (0 = most significant) of byte k (from 0) of a BitVec; the bits past
\* its length read as 0
PaddedBit(bits, k, i) ==
    IF 8 * k + i + 1 <= Len(bits) THEN Bit(bits[8 * k + i + 1]) ELSE 0

\* mutant of to_bytes: the first bit of a byte is its least significant
to_bytes_lsb_first(bits) ==
    [k \in 1..((Len(bits) + 7) \div 8) |->
        PaddedBit(bits, k - 1, 7) * 128 + PaddedBit(bits, k - 1, 6) * 64
        + PaddedBit(bits, k - 1, 5) * 32 + PaddedBit(bits, k - 1, 4) * 16
        + PaddedBit(bits, k - 1, 3) * 8 + PaddedBit(bits, k - 1, 2) * 4
        + PaddedBit(bits, k - 1, 1) * 2 + PaddedBit(bits, k - 1, 0)]

\* BitVec::to_bytes: 8 bits per byte, the first bit the most significant, the
\* last byte padded with zeros
to_bytes(bits) ==
    [k \in 1..((Len(bits) + 7) \div 8) |->
        PaddedBit(bits, k - 1, 0) * 128 + PaddedBit(bits, k - 1, 1) * 64
        + PaddedBit(bits, k - 1, 2) * 32 + PaddedBit(bits, k - 1, 3) * 16
        + PaddedBit(bits, k - 1, 4) * 8 + PaddedBit(bits, k - 1, 5) * 4
        + PaddedBit(bits, k - 1, 6) * 2 + PaddedBit(bits, k - 1, 7)]

\* BitVec::from_bytes: every byte gives 8 bits, the most significant first
from_bytes(bytes) ==
    [i \in 1..(8 * Len(bytes)) |->
        (bytes[((i - 1) \div 8) + 1] \div Pow2(7 - ((i - 1) % 8))) % 2 = 1]

\* unsafe BitVec::set_len(len) on a vector whose storage holds `bits`: within
\* the storage the vector is cut to len bits; past it the added bits are
\* whatever the build reads there
set_len(bits, len) ==
    IF len <= Len(bits)
    THEN {SubSeq(bits, 1, len)}
    ELSE {b \in [1..len -> BOOLEAN] : SubSeq(b, 1, Len(bits)) = bits}

\* ------------------------------------------------------------------ decoder
\* mutant of next_node: a set bit selects the first child
next_node_swapped(branch, bit_value) ==
    IF bit_value THEN branch.links[1] ELSE branch.links[2]

\* decode_single_symbol at a Branch: the child the bit selects
next_node(branch, bit_value) ==
    IF bit_value THEN branch.links[2] ELSE branch.links[1]

\* ------------------------------------------------------------------ state
VARIABLES
    pc,         \* where the driver of the library stands
    literal,    \* the input the round-trip driver iterates over (twice)
    fed,        \* how many symbols of literal the generator has been fed
    symbols,    \* HuffmanGenerator.symbols: symbol -> count
    heap,       \* the BinaryHeap of into_huffman_tree, by its contents
    lower,      \* local `lower` of the last merge step (None before any)
    greater,    \* local `greater` of the last merge step (None before any)
    merges,     \* merge steps taken by the running into_huffman_tree
    tree,       \* what into_huffman_tree returned: None or Some(weighted root)
    built,      \* the trees returned so far for tables of these contents
    codes,      \* HuffmanEncoder.symbols: symbol -> codeword
    consumed,   \* the symbols encode has taken from its iterator, in order
    bitvec,     \* local `bitvec` of encode
    result,     \* what encode returned: None, Ok(bits) or Err(symbol)
    from_iter,  \* what from_symbols_iterator returned: None until it is called
    container,  \* the Compressed record: None or Some(record)
    root,       \* HuffmanDecoder.root: None or Some(node)
    buffer,     \* the BitVec handed to decode_unbounded
    pos,        \* local `pos` of decode_unbounded
    node,       \* the node decode_single_symbol stands on (None between calls)
    decoded     \* local `result` of decode_unbounded

inVars == <<literal, fed>>

genVars == <<symbols, heap, lower, greater, merges, tree, built>>

encVars == <<codes, consumed, bitvec, result, from_iter>>

decVars == <<container, root, buffer, pos, node, decoded>>

vars == <<pc, inVars, genVars, encVars, decVars>>

InitGen ==
    /\ pc = "gen"
    /\ literal = <<>>
    /\ fed = 0
    /\ symbols = EmptyMap
    /\ heap = {}
    /\ lower = None
    /\ greater = None
    /\ merges = 0
    /\ tree = None
    /\ built = <<>>
    /\ codes = EmptyMap
    /\ consumed = <<>>
    /\ bitvec = <<>>
    /\ result = None
    /\ from_iter = None
    /\ container = None
    /\ root = None
    /\ buffer = <<>>
    /\ pos = 0
    /\ node = None
    /\ decoded = <<>>

\* ------------------------------------------------------------------ builder
\* gen.add_occurences_to_symbol(&symbol, occurences)
AddOccurences(symbol, occurences) ==
    /\ pc = "gen"
    /\ symbols' = add_occurences_to_symbol(symbols, symbol, occurences)
    /\ UNCHANGED <<pc, heap, lower, greater, merges, tree, built>>
    /\ UNCHANGED <<encVars, decVars>>

\* mutant of IntoHuffmanTree: an entry whose count is 0 gets no leaf
IntoHuffmanTreeSkipZero ==
    /\ pc = "gen"
    /\ IF TableIsEmpty(symbols)
       THEN /\ tree' = None
            /\ built' = Append(built, None)
            /\ pc' = "built"
            /\ UNCHANGED heap
       ELSE /\ heap' = {new_leaf(s, symbols[s]) : s \in {x \in DOMAIN symbols : symbols[x] > 0}}
            /\ pc' = "merge"
            /\ UNCHANGED <<tree, built>>
    /\ merges' = 0
    /\ lower' = None
    /\ greater' = None
    /\ UNCHANGED <<symbols, inVars, encVars, decVars>>

\* into_huffman_tree up to the end of its for loop: the early return on an
\* empty table, else one leaf pushed per entry
IntoHuffmanTree ==
    /\ pc = "gen"
    /\ IF TableIsEmpty(symbols)
       THEN /\ tree' = None
            /\ built' = Append(built, None)
            /\ pc' = "built"
            /\ UNCHANGED heap
       ELSE /\ heap' = {new_leaf(s, symbols[s]) : s \in DOMAIN symbols}
            /\ pc' = "merge"
            /\ UNCHANGED <<tree, built>>
    /\ merges' = 0
    /\ lower' = None
    /\ greater' = None
    /\ UNCHANGED <<symbols, inVars, encVars, decVars>>

\* mutant of MergeStep: `lower` is looked at but left in the heap
MergeStepKeepsLower ==
    /\ pc = "merge"
    /\ Cardinality(heap) > 1
    /\ \E lo \in HeapPop(heap) :
         \E gr \in HeapPop(heap \ {lo}) :
            /\ lower' = lo
            /\ greater' = gr
            /\ heap' = (heap \ {gr}) \cup {new_branch(gr, lo)}
    /\ merges' = merges + 1
    /\ UNCHANGED <<pc, symbols, tree, built, inVars, encVars, decVars>>

\* one turn of `while symbols.len() > 1`
MergeStep ==
    /\ pc = "merge"
    /\ Cardinality(heap) > 1
    /\ \E lo \in HeapPop(heap) :
         \E gr \in HeapPop(heap \ {lo}) :
            /\ lower' = lo
            /\ greater' = gr
            /\ heap' = (heap \ {lo, gr}) \cup {new_branch(gr, lo)}
    /\ merges' = merges + 1
    /\ UNCHANGED <<pc, symbols, tree, built, inVars, encVars, decVars>>

\* Some(symbols.pop().unwrap().0): unwrap panics on an empty heap
Return ==
    /\ pc = "merge"
    /\ Cardinality(heap) <= 1
    /\ IF heap = {}
       THEN /\ pc' = "panic_pop"
            /\ UNCHANGED <<heap, tree, built>>
       ELSE \E top \in HeapPop(heap) :
               /\ tree' = Some(top)
               /\ built' = Append(built, Some(top))
               /\ heap' = heap \ {top}
               /\ pc' = "built"
    /\ UNCHANGED <<symbols, lower, greater, merges, inVars, encVars, decVars>>

\* a second generator holding the same symbol -> count contents is built
BuildAgain ==
    /\ pc = "built"
    /\ Len(built) < MaxBuilds
    /\ pc' = "gen"
    /\ tree' = None
    /\ UNCHANGED <<symbols, heap, lower, greater, merges, built>>
    /\ UNCHANGED <<inVars, encVars, decVars>>

\* HuffmanEncoder::from_tree(&gen.into_huffman_tree().unwrap()): the caller's
\* unwrap panics when no tree was returned
FromTree ==
    /\ pc = "built"
    /\ IF tree = None
       THEN /\ pc' = "panic_unwrap"
            /\ UNCHANGED codes
       ELSE /\ codes' = from_tree(tree.value.node)
            /\ pc' = "encode"
    /\ UNCHANGED <<inVars, genVars, consumed, bitvec, result, from_iter, decVars>>

\* the message of from_symbols_iterator's Err
OneOrFewer == "One or fewer symbols were provided"

\* HuffmanEncoder::from_symbols_iterator once its generator has been fed and
\* into_huffman_tree has returned: the match on the tree
FromSymbolsIterator ==
    /\ pc = "built"
    /\ IF tree = None
       THEN /\ from_iter' = Err(OneOrFewer)
            /\ pc' = "no_encoder"
            /\ UNCHANGED codes
       ELSE /\ from_iter' = Ok(from_tree(tree.value.node))
            /\ codes' = from_tree(tree.value.node)
            /\ pc' = "encode"
    /\ UNCHANGED <<inVars, genVars, consumed, bitvec, result, decVars>>

\* mutant of EncodeSymbol: an unknown symbol is skipped and encoding goes on
EncodeSymbolSkip(symbol) ==
    /\ pc = "encode"
    /\ consumed' = Append(consumed, symbol)
    /\ LET code == get(codes, symbol)
       IN  bitvec' = IF code # None THEN bitvec \o code.value ELSE bitvec
    /\ UNCHANGED <<pc, result, genVars, codes, from_iter, decVars>>

\* mutant of EncodeSymbol: the codeword is put in front of the bits so far
EncodeSymbolPrepend(symbol) ==
    /\ pc = "encode"
    /\ consumed' = Append(consumed, symbol)
    /\ LET code == get(codes, symbol)
       IN  IF code # None
           THEN /\ bitvec' = code.value \o bitvec
                /\ UNCHANGED <<pc, result>>
           ELSE /\ result' = Err(symbol)
                /\ bitvec' = <<>>
                /\ pc' = "failed"
    /\ UNCHANGED <<genVars, codes, from_iter, decVars>>

\* one turn of `for symbol in iter` in encode: the codeword is appended, or
\* encode returns Err with the symbol and its local bitvec is dropped
EncodeSymbol(symbol) ==
    /\ pc = "encode"
    /\ consumed' = Append(consumed, symbol)
    /\ LET code == get(codes, symbol)
       IN  IF code # None
           THEN /\ bitvec' = bitvec \o code.value
                /\ UNCHANGED <<pc, result>>
           ELSE /\ result' = Err(symbol)
                /\ bitvec' = <<>>
                /\ pc' = "failed"
    /\ UNCHANGED <<genVars, codes, from_iter, decVars>>

\* the iterator is exhausted: Ok(bitvec)
EncodeReturn ==
    /\ pc = "encode"
    /\ result' = Ok(bitvec)
    /\ pc' = "encoded"
    /\ UNCHANGED <<inVars, genVars, codes, consumed, bitvec, from_iter, decVars>>

\* decoder.decode_unbounded(&result) of tests::encode_decode: the decoder of
\* the pair owns the tree, the buffer is the encoder's BitVec (no decoder
\* comes with the encoder of from_symbols_iterator)
DecodeDirect ==
    /\ pc = "encoded"
    /\ from_iter = None
    /\ root' = Some(tree.value.node)
    /\ buffer' = result.value
    /\ pos' = 0
    /\ decoded' = <<>>
    /\ node' = None
    /\ pc' = "decode"
    /\ UNCHANGED <<inVars, genVars, encVars, container>>

\* rhuff-compress, compress: Compressed { tree, data, data_len }
Pack ==
    /\ pc = "encoded"
    /\ from_iter = None
    /\ container' = Some([tree |-> tree.value.node,
                          data |-> to_bytes(result.value),
                          data_len |-> Len(result.value)])
    /\ pc' = "packed"
    /\ UNCHANGED <<inVars, genVars, encVars, root, buffer, pos, node, decoded>>

\* rhuff-compress, decompress: BitVec::from_bytes, set_len(data_len),
\* HuffmanDecoder::new(data.tree), decode_unbounded(&bitvec)
Unpack ==
    /\ pc = "packed"
    /\ \E b \in set_len(from_bytes(container.value.data), container.value.data_len) :
          buffer' = b
    /\ root' = Some(container.value.tree)
    /\ pos' = 0
    /\ decoded' = <<>>
    /\ node' = None
    /\ pc' = "decode"
    /\ UNCHANGED <<inVars, genVars, encVars, container>>

\* `while pos < buffer.len()` of decode_unbounded: decode_single_symbol is
\* called on the root, or the result is returned
DecodeLoop ==
    /\ pc = "decode"
    /\ node = None
    /\ IF pos < Len(buffer)
       THEN /\ node' = root
            /\ UNCHANGED pc
       ELSE /\ pc' = "done"
            /\ UNCHANGED node
    /\ UNCHANGED <<inVars, genVars, encVars, container, root, buffer, pos, decoded>>

\* mutant of DecodeStep: the cursor advances at a Leaf as well
DecodeStepLeafAdvances ==
    /\ pc = "decode"
    /\ node # None
    /\ IF IsBranch(node.value)
       THEN IF pos >= Len(buffer)
            THEN /\ pc' = "panic_index"
                 /\ UNCHANGED <<node, pos, decoded>>
            ELSE /\ node' = Some(next_node(node.value, buffer[pos + 1]))
                 /\ pos' = pos + 1
                 /\ UNCHANGED <<pc, decoded>>
       ELSE /\ decoded' = Append(decoded, node.value.symbol)
            /\ node' = None
            /\ pos' = pos + 1
            /\ UNCHANGED pc
    /\ UNCHANGED <<inVars, genVars, encVars, container, root, buffer>>

\* decode_single_symbol on the node it stands on: a Branch reads buffer[*pos]
\* (a panic past the end), steps to a child and advances pos; a Leaf returns
\* its symbol, which decode_unbounded pushes
DecodeStep ==
    /\ pc = "decode"
    /\ node # None
    /\ IF IsBranch(node.value)
       THEN IF pos >= Len(buffer)
            THEN /\ pc' = "panic_index"
                 /\ UNCHANGED <<node, pos, decoded>>
            ELSE /\ node' = Some(next_node(node.value, buffer[pos + 1]))
                 /\ pos' = pos + 1
                 /\ UNCHANGED <<pc, decoded>>
       ELSE /\ decoded' = Append(decoded, node.value.symbol)
            /\ node' = None
            /\ UNCHANGED <<pc, pos>>
    /\ UNCHANGED <<inVars, genVars, encVars, container, root, buffer>>

\* the test driver of the builder: any add that keeps the entry within MaxCount
AddBuild ==
    \E s \in 1..BuildSymbols, n \in 0..MaxCount :
        /\ Len(built) = 0
        /\ (IF s \in DOMAIN symbols THEN symbols[s] ELSE 0) + n <= MaxCount
        /\ AddOccurences(s, n)
        /\ UNCHANGED inVars

NextBuild ==
    \/ AddBuild
    \/ IntoHuffmanTree
    \/ MergeStep
    \/ Return
    \/ BuildAgain
    \/ FromTree

SpecBuild == InitGen /\ [][NextBuild]_vars

\* the driver of the tie-break specification: symbols 1, 2, 3, ... are added
\* once each, in this order, with a count of 1..TieCount
AddTie ==
    \E n \in 1..TieCount :
        LET s == Cardinality(DOMAIN symbols) + 1
        IN  /\ s <= TieSymbols
            /\ AddOccurences(s, n)
            /\ UNCHANGED inVars

NextTies ==
    \/ AddTie
    \/ IntoHuffmanTree
    \/ MergeStep
    \/ Return

SpecTies == InitGen /\ [][NextTies]_vars

\* a is a prefix of b (a = b included)
IsPrefix(a, b) == Len(a) <= Len(b) /\ SubSeq(b, 1, Len(a)) = a

\* ------------------------------------------------------------------ encoder API
\* the count of the three_symbols test for "A"
GoldenWeight == 10

\* gen.add_occurences_to_symbol(&"A", 10), (&"B", 2), (&"C", 2)
GoldenTable == (1 :> GoldenWeight) @@ (2 :> 2) @@ (3 :> 2)

\* the literal of three_symbols_encoding_is_correct
GoldenLiteral == <<1, 1, 2, 1, 1, 3, 3, 1, 1, 1, 1, 2, 1>>

EntryCounts == (0..MaxCount) \cup {GoldenWeight}

\* the driver of the encoder specification: any add that leaves the entry at a
\* count of EntryCounts
AddEncode ==
    \E s \in 1..NumSymbols, n \in EntryCounts :
        /\ (IF s \in DOMAIN symbols THEN symbols[s] ELSE 0) + n \in EntryCounts
        /\ AddOccurences(s, n)
        /\ UNCHANGED inVars

\* the iterator yields any symbol, for a stream of at most MaxStream symbols or
\* a prefix of the test's literal
EncodeAny ==
    \E s \in 1..NumSymbols :
        /\ \/ Len(consumed) < MaxStream
           \/ IsPrefix(Append(consumed, s), GoldenLiteral)
        /\ EncodeSymbol(s)
        /\ UNCHANGED inVars

NextEncode ==
    \/ AddEncode
    \/ IntoHuffmanTree
    \/ MergeStep
    \/ Return
    \/ FromTree
    \/ EncodeAny
    \/ EncodeReturn

SpecEncode == InitGen /\ [][NextEncode]_vars

\* ------------------------------------------------------------------ decoder API
\* the driver of the decoder specification: symbols 1, 2, 3, ... are added
\* once each, in this order, with a count of 1..MaxCount
AddDecode ==
    \E n \in 1..MaxCount :
        LET s == Cardinality(DOMAIN symbols) + 1
        IN  /\ s <= NumSymbols
            /\ AddOccurences(s, n)
            /\ UNCHANGED inVars

\* HuffmanDecoder::new(tree).decode_unbounded(&buffer) on any BitVec of at
\* most MaxBits bits
DecodeAny ==
    /\ pc = "built"
    /\ tree # None
    /\ root' = Some(tree.value.node)
    /\ \E b \in UNION {[1..k -> BOOLEAN] : k \in 0..MaxBits} : buffer' = b
    /\ pos' = 0
    /\ decoded' = <<>>
    /\ node' = None
    /\ pc' = "decode"
    /\ UNCHANGED <<inVars, genVars, encVars, container>>

\* decode_single_symbol, followed up to MaxDecoded decoded symbols
DecodeStepCapped ==
    /\ Len(decoded) < MaxDecoded
    /\ DecodeStep

NextDecode ==
    \/ AddDecode
    \/ IntoHuffmanTree
    \/ MergeStep
    \/ Return
    \/ DecodeAny
    \/ DecodeLoop
    \/ DecodeStepCapped

SpecDecode == InitGen /\ [][NextDecode]_vars

\* ------------------------------------------------------------------ round trip
\* every sequence over S of at most n symbols
BoundedSeq(S, n) == UNION {[1..k -> S] : k \in 0..n}

\* the literals of the decoder's tests two_symbols_decoding_is_correct2,
\* two_symbols_decoding_is_correct3 and three_symbols_decoding_is_correct3
TestLiterals ==
    { <<2, 1, 2, 2, 2, 2, 1>>,
      <<2, 1, 2, 2, 2, 2, 1, 2>>,
      <<2, 1, 2, 2, 2, 2, 3, 2, 3, 3, 3>> }

Init ==
    /\ pc = "gen"
    /\ literal \in BoundedSeq(1..NumSymbols, MaxLen) \cup TestLiterals
                   \cup {GoldenLiteral}
    /\ fed = 0
    /\ symbols = EmptyMap
    /\ heap = {}
    /\ lower = None
    /\ greater = None
    /\ merges = 0
    /\ tree = None
    /\ built = <<>>
    /\ codes = EmptyMap
    /\ consumed = <<>>
    /\ bitvec = <<>>
    /\ result = None
    /\ from_iter = None
    /\ container = None
    /\ root = None
    /\ buffer = <<>>
    /\ pos = 0
    /\ node = None
    /\ decoded = <<>>

\* gen.add_occurences_from_iterator(&mut literal.iter()): one occurence is
\* added per symbol the iterator yields
FeedGenerator ==
    /\ fed < Len(literal)
    /\ AddOccurences(literal[fed + 1], 1)
    /\ fed' = fed + 1
    /\ UNCHANGED literal

\* the tree is built once the iterator is exhausted
BuildFed ==
    /\ fed = Len(literal)
    /\ IntoHuffmanTree

\* encoder.encode(&mut literal.iter()): the iterator yields the next symbol
EncodeNext ==
    /\ Len(consumed) < Len(literal)
    /\ EncodeSymbol(literal[Len(consumed) + 1])
    /\ UNCHANGED inVars

\* the iterator is exhausted
EncodeEnd ==
    /\ Len(consumed) = Len(literal)
    /\ EncodeReturn

Next ==
    \/ FeedGenerator
    \/ BuildFed
    \/ MergeStep
    \/ Return
    \/ FromTree
    \/ FromSymbolsIterator
    \/ EncodeNext
    \/ EncodeEnd
    \/ DecodeDirect
    \/ Pack
    \/ Unpack
    \/ DecodeLoop
    \/ DecodeStep

Spec == Init /\ [][Next]_vars

\* ------------------------------------------------------------------ claims
\* the sum of the table's counts over the symbols of S
RECURSIVE SumCounts(_)
SumCounts(S) ==
    IF S = {} THEN 0
    ELSE LET s == CHOOSE x \in S : TRUE IN symbols[s] + SumCounts(S \ {s})

\* the weight the table gives a node: the sum of the counts of its leaves
RECURSIVE NodeWeight(_)
NodeWeight(n) ==
    IF IsLeaf(n) THEN symbols[n.symbol]
    ELSE NodeWeight(n.links[1]) + NodeWeight(n.links[2])

SetMin(S) == CHOOSE x \in S : \A y \in S : x <= y

\* the least weighted length of a full binary tree whose leaves are S: the
\* root splits S into two non-empty parts, and every leaf is one level deeper
RECURSIVE MinCost(_)
MinCost(S) ==
    IF Cardinality(S) <= 1 THEN 0
    ELSE SumCounts(S)
         + SetMin({MinCost(A) + MinCost(S \ A) : A \in (SUBSET S) \ {{}, S}})

\* the weighted length of the derived code
RECURSIVE CodeCost(_)
CodeCost(S) ==
    IF S = {} THEN 0
    ELSE LET s == CHOOSE x \in S : TRUE
         IN  symbols[s] * Len(codes[s]) + CodeCost(S \ {s})

\* the order of the claim, where it speaks: lower weight first; on equal
\* weight a Branch before a Leaf, and two Leaves by their symbols
ClaimLess(a, b) ==
    \/ a.weight < b.weight
    \/ /\ a.weight = b.weight
       /\ \/ IsBranch(a.node) /\ IsLeaf(b.node)
          \/ IsLeaf(a.node) /\ IsLeaf(b.node) /\ a.node.symbol < b.node.symbol

\* how often symbol s occurs in seq
RECURSIVE Occurrences(_, _)
Occurrences(seq, s) ==
    IF seq = <<>> THEN 0
    ELSE (IF Head(seq) = s THEN 1 ELSE 0) + Occurrences(Tail(seq), s)

Range(seq) == {seq[i] : i \in DOMAIN seq}

\* t is the frequency table of seq
IsFrequencyTable(t, seq) ==
    /\ DOMAIN t = Range(seq)
    /\ \A s \in DOMAIN t : t[s] = Occurrences(seq, s)

\* C1: a sequence of at least two distinct symbols, encoded with the tree of
\* its own frequency table and decoded from the encoder's BitVec (whose length
\* is the exact bit count), comes back symbol for symbol; neither encode nor
\* decode fails on the way.
C1_RoundTrip ==
    (Cardinality(Range(literal)) >= 2 /\ container = None) =>
        /\ pc \notin {"failed", "panic_index", "panic_unwrap", "panic_pop"}
        /\ pc = "done" =>
              /\ IsFrequencyTable(symbols, literal)
              /\ Len(buffer) = Len(result.value)
              /\ decoded = literal

C1_Witness ==
    /\ pc = "done"
    /\ container = None
    /\ Cardinality(Range(literal)) = 3
    /\ Len(literal) = 4
    /\ decoded = literal
    /\ \E a \in DOMAIN codes : Len(codes[a]) = 1
    /\ \E a \in DOMAIN codes : Len(codes[a]) = 2

\* C2: every stream the tree covers, a stream of one distinct symbol
\* included, comes back from the container as it went in.
C2_ContainerRoundTrip ==
    (pc = "done" /\ container # None) => decoded = literal

\* C3: in the codeword map derived from a built tree, the codewords of two
\* distinct symbols are never equal and neither is a prefix of the other.
C3_PrefixCode ==
    pc = "encode" =>
        \A a \in DOMAIN codes : \A b \in DOMAIN codes :
            a # b => ~IsPrefix(codes[a], codes[b])

C3_Witness ==
    /\ pc = "encode"
    /\ Cardinality(DOMAIN codes) = 4
    /\ \E a \in DOMAIN codes : Len(codes[a]) = 1
    /\ \E a \in DOMAIN codes : Len(codes[a]) = 3

\* C4: the derived code covers the table's symbols and its weighted length
\* (sum of count times codeword length) is the least any full binary tree over
\* the same leaves has.
C4_Optimal ==
    pc = "encode" =>
        /\ DOMAIN codes = DOMAIN symbols
        /\ CodeCost(DOMAIN symbols) = MinCost(DOMAIN symbols)

C4_Witness ==
    /\ pc = "encode"
    /\ Cardinality(DOMAIN symbols) = 4
    /\ \E a \in DOMAIN symbols : \E b \in DOMAIN symbols :
          symbols[a] < symbols[b] /\ Len(codes[a]) > Len(codes[b])

\* C5: every build of a table of the same contents returns the same tree.
C5_Deterministic ==
    \A i \in DOMAIN built : \A j \in DOMAIN built : built[i] = built[j]

C5_Witness ==
    /\ Len(built) = 2
    /\ built[2] # None
    /\ Cardinality(DOMAIN symbols) = 4
    /\ \A a \in DOMAIN symbols : symbols[a] = 1

\* C6: a merge step removes the two smallest nodes of the collection: no node
\* of the collection is below `lower`, and no other node is below `greater`.
C6_MergeSelection ==
    [][(pc = "merge" /\ merges' = merges + 1) =>
          /\ lower' \in heap
          /\ greater' \in heap \ {lower'}
          /\ \A x \in heap : ~ClaimLess(x, lower')
          /\ \A x \in heap \ {lower'} : ~ClaimLess(x, greater')
          /\ heap \ heap' = {lower', greater'}]_vars

C6_Witness ==
    /\ merges >= 2
    /\ lower # None
    /\ lower.weight = greater.weight
    /\ IsBranch(lower.node)
    /\ IsLeaf(greater.node)
    /\ \E x \in heap : IsLeaf(x.node) /\ x.weight = lower.weight

\* the node order of the claim on children, whose weights the table gives:
\* weight, then Branch before Leaf, then symbols, then the first children
RECURSIVE ClaimCmp(_, _)
ClaimCmp(a, b) ==
    IF NodeWeight(a) # NodeWeight(b) THEN IntCmp(NodeWeight(a), NodeWeight(b))
    ELSE CASE IsLeaf(a) /\ IsBranch(b) -> "Greater"
           [] IsBranch(a) /\ IsLeaf(b) -> "Less"
           [] IsLeaf(a) /\ IsLeaf(b) -> IntCmp(a.symbol, b.symbol)
           [] IsBranch(a) /\ IsBranch(b) -> ClaimCmp(a.links[1], b.links[1])

EqualBranches(x, y) ==
    /\ x # y
    /\ IsBranch(x.node)
    /\ IsBranch(y.node)
    /\ x.weight = y.weight

\* C7: two Branches of equal weight in the collection are ordered as the
\* claim's node order orders their first children, and never compare Equal.
C7_BranchTieBreak ==
    \A x \in heap : \A y \in heap :
        EqualBranches(x, y) =>
            /\ WeightedCmp(x, y) = ClaimCmp(x.node.links[1], y.node.links[1])
            /\ WeightedCmp(x, y) # "Equal"

C7_Witness ==
    \E x \in heap : \E y \in heap :
        /\ EqualBranches(x, y)
        /\ IsBranch(x.node.links[1])
        /\ IsBranch(y.node.links[1])

\* C8: the node removed first, the smallest, is the second child of the new
\* Branch and the node removed second its first child; the counts A:10, B:2,
\* C:2 give A=0, C=10, B=11, and the test's literal encodes to 17 bits, packed
\* as 0b00110010, 0b10000011, 0b00000000.
C8_ChildPlacement ==
    /\ [][(pc = "merge" /\ merges' = merges + 1) =>
            /\ \A x \in heap : ~ClaimLess(x, lower')
            /\ \E b \in heap' \ heap :
                  /\ heap' \ heap = {b}
                  /\ IsBranch(b.node)
                  /\ b.node.links[1] = greater'.node
                  /\ b.node.links[2] = lower'.node]_vars
    /\ [](symbols = GoldenTable =>
            /\ pc \in {"encode", "encoded", "failed"} =>
                  codes = (1 :> <<FALSE>>) @@ (3 :> <<TRUE, FALSE>>)
                          @@ (2 :> <<TRUE, TRUE>>)
            /\ (pc = "encoded" /\ consumed = GoldenLiteral) =>
                  /\ Len(result.value) = 17
                  /\ to_bytes(result.value) = <<50, 131, 0>>)

C8_Witness ==
    /\ pc = "encoded"
    /\ symbols = GoldenTable
    /\ consumed = GoldenLiteral
    /\ merges = 2

\* C9: a symbol absent from the codeword map is the last symbol encode takes
\* from the stream; encode then has returned Err with exactly that symbol and
\* no bits, and all the symbols before it were in the map.
C9_UnknownSymbol ==
    /\ \A i \in DOMAIN consumed :
          consumed[i] \notin DOMAIN codes =>
              /\ i = Len(consumed)
              /\ pc = "failed"
              /\ result = Err(consumed[i])
              /\ bitvec = <<>>
    /\ pc = "failed" =>
          /\ consumed # <<>>
          /\ consumed[Len(consumed)] \notin DOMAIN codes
    /\ result.kind = "Ok" => \A i \in DOMAIN consumed : consumed[i] \in DOMAIN codes

C9_Witness ==
    /\ pc = "failed"
    /\ Len(consumed) = 3
    /\ result = Err(consumed[3])
    /\ consumed[1] \in DOMAIN codes
    /\ consumed[2] \in DOMAIN codes
    /\ Len(codes[consumed[1]]) > 0

\* C10: on a table without entries the build returns None: no merge is made,
\* nothing is pushed, and the build does not panic.
C10_EmptyAlphabet ==
    DOMAIN symbols = {} =>
        /\ pc \in {"gen", "built", "panic_unwrap"}
        /\ tree = None
        /\ merges = 0
        /\ heap = {}
        /\ \A i \in DOMAIN built : built[i] = None

C10_Witness ==
    /\ pc = "built"
    /\ DOMAIN symbols = {}
    /\ Len(built) = 1
    /\ built[1] = None

C12_DocumentedNone ==
    Cardinality(Range(literal)) <= 1 =>
        /\ \A i \in DOMAIN built : built[i] = None
        /\ from_iter # None => from_iter = Err(OneOrFewer)

\* the count a table stores for s, 0 when s is not a key
Count(t, s) == IF s \in DOMAIN t THEN t[s] ELSE 0

\* C13: every add changes the table by adding its count to the one symbol it
\* names (the key appearing if it was absent) and leaves every other entry
\* alone, so a stored count is the sum of the counts added for its symbol;
\* add(s,a);add(s,b) gives the table of add(s,a+b), and two adds give the same
\* table in either order.
C13_Additive ==
    /\ [][symbols' # symbols =>
            \E s \in 1..BuildSymbols : \E n \in 0..MaxCount :
                /\ DOMAIN symbols' = DOMAIN symbols \cup {s}
                /\ symbols'[s] = Count(symbols, s) + n
                /\ \A x \in DOMAIN symbols \ {s} : symbols'[x] = symbols[x]]_vars
    /\ [](\A s \in 1..BuildSymbols : \A a \in 0..MaxCount : \A b \in 0..MaxCount :
            /\ add_occurences_to_symbol(add_occurences_to_symbol(symbols, s, a), s, b)
                  = add_occurences_to_symbol(symbols, s, a + b)
            /\ Count(add_occurences_to_symbol(symbols, s, a), s) = Count(symbols, s) + a
            /\ \A r \in 1..BuildSymbols :
                  add_occurences_to_symbol(add_occurences_to_symbol(symbols, s, a), r, b)
                    = add_occurences_to_symbol(add_occurences_to_symbol(symbols, r, b), s, a))

C13_Witness ==
    /\ pc = "gen"
    /\ Cardinality(DOMAIN symbols) = 3
    /\ \E s \in DOMAIN symbols : symbols[s] = 2
    /\ \E s \in DOMAIN symbols : symbols[s] = 0

\* the symbols of the leaves of a tree, first child before second
RECURSIVE LeafSeq(_)
LeafSeq(n) ==
    IF IsLeaf(n) THEN <<n.symbol>>
    ELSE LeafSeq(n.links[1]) \o LeafSeq(n.links[2])

RECURSIVE BranchCount(_)
BranchCount(n) ==
    IF IsLeaf(n) THEN 0
    ELSE 1 + BranchCount(n.links[1]) + BranchCount(n.links[2])

\* every node is a Leaf or a Branch of exactly two such nodes
RECURSIVE FullBinary(_)
FullBinary(n) ==
    \/ IsLeaf(n)
    \/ /\ IsBranch(n)
       /\ Len(n.links) = 2
       /\ FullBinary(n.links[1])
       /\ FullBinary(n.links[2])

BitOfByte(byte, j) == (byte \div (2 ^ (7 - j))) % 2

\* C15: the payload has ceil(bit_count / 8) bytes, bit_count is the length of
\* the encoded bit sequence, bit i of the sequence is bit (i mod 8) from the
\* top of byte (i div 8), the bits of the last byte past bit_count are 0, and
\* the decompress path hands the decoder exactly the encoded bit sequence.
C15_PayloadPacking ==
    container # None =>
        LET c == container.value
            bits == result.value
        IN  /\ c.data_len = Len(bits)
            /\ 8 * Len(c.data) >= Len(bits)
            /\ 8 * Len(c.data) < Len(bits) + 8
            /\ \A k \in DOMAIN c.data : c.data[k] \in 0..255
            /\ \A i \in 0..(8 * Len(c.data) - 1) :
                  BitOfByte(c.data[(i \div 8) + 1], i % 8)
                    = IF i < Len(bits) THEN Bit(bits[i + 1]) ELSE 0
            /\ pc \in {"decode", "done", "panic_index"} => buffer = bits

C15_Witness ==
    /\ pc = "done"
    /\ container # None
    /\ container.value.data_len = 17
    /\ Len(container.value.data) = 3
    /\ buffer = result.value
    /\ decoded = literal

\* C16: on every tree and every BitVec, decode returns: it does not stop in a
\* panic, and it does not emit a second symbol at a cursor position where it
\* has emitted one already (a decode that consumes a bit between any two
\* symbols has emitted at most pos + 1 of them).
C16_DecoderTerminates ==
    /\ pc # "panic_index"
    /\ pc = "decode" => Len(decoded) <= pos + 1

\* the decoder runs on a tree whose root is a Branch
BranchRooted == root # None /\ IsBranch(root.value)

\* C17: on the encoder's output for a Branch-rooted tree, a step at a Branch
\* reads a bit below bit_count, moves to the first child on 0 and the second
\* on 1 and advances the cursor by one; a step at a Leaf emits its symbol,
\* leaves the cursor alone and hands the walk back to the root; decoding stops
\* with the cursor at bit_count and as many symbols as were encoded.
C17_CursorDiscipline ==
    /\ [][(pc = "decode" /\ BranchRooted /\ node # None) =>
            IF IsBranch(node.value)
            THEN /\ pos < Len(buffer)
                 /\ pos' = pos + 1
                 /\ node' = Some(IF buffer[pos + 1] THEN node.value.links[2]
                                                    ELSE node.value.links[1])
                 /\ decoded' = decoded
                 /\ pc' = "decode"
            ELSE /\ pos' = pos
                 /\ decoded' = Append(decoded, node.value.symbol)
                 /\ node' = None
                 /\ pc' = "decode"]_<<pc, pos, node, decoded>>
    /\ [][(pc = "decode" /\ BranchRooted /\ node = None) =>
            /\ pos' = pos
            /\ decoded' = decoded
            /\ IF pos < Len(buffer)
               THEN node' = root /\ pc' = "decode"
               ELSE node' = None /\ pc' = "done"]_<<pc, pos, node, decoded>>
    /\ [](BranchRooted =>
            /\ pc # "panic_index"
            /\ Len(buffer) = Len(result.value)
            /\ pos <= Len(buffer)
            /\ pc = "done" => (pos = Len(buffer) /\ Len(decoded) = Len(literal)))

C17_Witness ==
    /\ pc = "done"
    /\ BranchRooted
    /\ Len(literal) = 4
    /\ Len(buffer) = 6
    /\ pos = 6
    /\ Len(decoded) = 4

\* the node a path of bits leads to from n (FALSE: first child, TRUE: second
\* child); None when the path runs on below a Leaf
RECURSIVE Walk(_, _)
Walk(n, path) ==
    IF path = <<>> THEN Some(n)
    ELSE IF IsLeaf(n) THEN None
    ELSE Walk(IF Head(path) THEN n.links[2] ELSE n.links[1], Tail(path))

\* the depth of the Leaf of symbol s below n
RECURSIVE DepthOf(_, _)
DepthOf(n, s) ==
    IF IsLeaf(n) THEN 0
    ELSE IF s \in Range(LeafSeq(n.links[1]))
         THEN 1 + DepthOf(n.links[1], s)
         ELSE 1 + DepthOf(n.links[2], s)

\* C18: the derived map has one entry per Leaf of the tree, and the codeword
\* of a symbol is the path from the root to its Leaf, 0 into a first child
\* and 1 into a second child, as long as the Leaf is deep.
C18_CodewordDerivation ==
    pc = "encode" =>
        LET t == tree.value.node
        IN  /\ DOMAIN codes = Range(LeafSeq(t))
            /\ Cardinality(DOMAIN codes) = Len(LeafSeq(t))
            /\ \A s \in DOMAIN codes :
                  /\ Walk(t, codes[s]) = Some(Leaf(s))
                  /\ Len(codes[s]) = DepthOf(t, s)

C18_Witness ==
    /\ pc = "encode"
    /\ Cardinality(DOMAIN codes) = 4
    /\ \E s \in DOMAIN codes : codes[s] = <<FALSE, TRUE, FALSE>>
    /\ \E s \in DOMAIN codes : codes[s] = <<TRUE>>

\* the codewords of the symbols of seq, one after the other
RECURSIVE ConcatCodes(_, _)
ConcatCodes(map, seq) ==
    IF seq = <<>> THEN <<>>
    ELSE map[Head(seq)] \o ConcatCodes(map, Tail(seq))

RECURSIVE SumCodeLens(_, _)
SumCodeLens(map, seq) ==
    IF seq = <<>> THEN 0
    ELSE Len(map[Head(seq)]) + SumCodeLens(map, Tail(seq))

\* C19: while every symbol taken from the stream is in the map, the bits of
\* encode are the codewords of the symbols taken so far in stream order (their
\* lengths add up, an empty stream gives no bits), Ok carries exactly these bits,
\* and encode leaves the codeword map as it was.
C19_EncoderOutput ==
    /\ []((pc \in {"encode", "encoded"}
            /\ \A i \in DOMAIN consumed : consumed[i] \in DOMAIN codes) =>
              /\ bitvec = ConcatCodes(codes, consumed)
              /\ Len(bitvec) = SumCodeLens(codes, consumed)
              /\ consumed = <<>> => bitvec = <<>>
              /\ pc = "encoded" => result = Ok(ConcatCodes(codes, consumed)))
    /\ [][pc = "encode" => codes' = codes]_vars

C19_Witness ==
    /\ pc = "encoded"
    /\ Cardinality(DOMAIN codes) = 3
    /\ Len(consumed) = 3
    /\ Cardinality(Range(consumed)) = 3
    /\ Len(result.value) = 5

\* the sum of the weights of the nodes of a collection
RECURSIVE SumWeights(_)
SumWeights(S) ==
    IF S = {} THEN 0
    ELSE LET x == CHOOSE y \in S : TRUE IN x.weight + SumWeights(S \ {x})

\* C20: while the merge loop runs, every node of the collection weighs the sum
\* of the counts of the Leaves beneath it and the weights of the collection
\* add up to the sum of the table's counts; the returned root weighs that sum.
C20_WeightInvariant ==
    /\ pc = "merge" =>
          /\ \A x \in heap : x.weight = NodeWeight(x.node)
          /\ SumWeights(heap) = SumCounts(DOMAIN symbols)
    /\ tree # None =>
          /\ tree.value.weight = SumCounts(DOMAIN symbols)
          /\ tree.value.weight = NodeWeight(tree.value.node)

C20_Witness ==
    /\ pc = "built"
    /\ tree # None
    /\ merges = 3
    /\ tree.value.weight = 7
    /\ \E s \in DOMAIN symbols : symbols[s] = 1

====
